---- MODULE Spec2Model ----
(***************************************************************************)
(* Progression and rewards engine of the Peregrine AI tutor platform       *)
(* (backend/main.py: GamificationEngine, GamificationStorage and the       *)
(* in-memory stores; backend/gamification.py: XPCalculator).               *)
(*                                                                         *)
(* Every engine and storage method is an operator from a store value D     *)
(* (the five in-memory dicts plus the set of engine accessors that have    *)
(* been rebound to the storage functions) to a result record               *)
(*     [db |-> store after the call, ret |-> return value, exc |-> error]  *)
(* so that a method calling other methods is the sequential composition    *)
(* of their operators.  Python objects held in the stores are mutated in   *)
(* place by the engine, so an assignment to a field of a fetched object    *)
(* is a change of the store even when the later save call is not reached.  *)
(* Time is the wall clock in whole hours; date(t) = t \div 24.             *)
(***************************************************************************)
EXTENDS Integers, Sequences, FiniteSets, TLC

VARIABLES
    now,                \* datetime.now(), in hours since the epoch of the run
    student_levels_db,  \* main.py:1421  student -> StudentLevel (or Absent)
    student_levels_keys, \* the keys of student_levels_db in the order the dict holds them
    student_badges_db,  \* main.py:1422  student -> list of Achievement
    student_streaks_db, \* main.py:1423  student -> daily_study Streak (or Absent)
    student_quests_db,  \* main.py:1424  student -> list of StudentQuest
    student_stats_db,   \* main.py:1425  student -> stats dict (or Absent)
    bound,              \* engine accessors already rebound to GamificationStorage
    tasks,              \* the badge checks submitted to the event loop, each with its position
    last,               \* history: the last call, its arguments, result and the store before it
    hist                \* history: per-student totals of what the callers asked for

vars == <<now, student_levels_db, student_levels_keys, student_badges_db, student_streaks_db,
          student_quests_db, student_stats_db, bound, tasks, last, hist>>

-----------------------------------------------------------------------------
(* Bounds of the model *)

MaxXpCalls == 5         \* add_xp calls in SpecXp
MaxQuestCalls == 4      \* quest starts and progress updates in SpecQuest
MaxCalls == 3           \* calls other than touches in Spec
MaxBadgeCalls == 4      \* badge checks in SpecBadge
MaxDay == 6             \* the last day of Spec, the seventh
MaxReports == 5         \* activity reports in SpecActivity
MaxNow == 216           \* the clock stops after nine days
MaxDashboardCalls == 4  \* calls other than clock ticks in SpecDashboard
MaxTasks == 3           \* badge checks in flight in SpecConcurrent
MaxUpdates == 11        \* counter updates and badge checks in SpecCounters
MaxIsolationCalls == 3  \* calls in SpecIsolation
MaxAccountingCalls == 3 \* calls in SpecAccounting
MaxAccessorCalls == 3   \* calls in SpecAccessors
MaxOfferCalls == 8      \* calls in SpecOffer
MaxClockCalls == 2      \* reports and counter updates in SpecClock
MaxClock == 24          \* the clock of SpecClock stops after one day

Students == {"s1", "s2"}
Absent == [absent |-> TRUE]
NoDate == -1            \* None in a datetime field

Max(a, b) == IF a >= b THEN a ELSE b
Min(a, b) == IF a <= b THEN a ELSE b
date(t) == t \div 24
hour(t) == t % 24

\* dict.get(key, 0) on a dict of numbers
DictGet(d, k) == IF k \in DOMAIN d THEN d[k] ELSE 0
EmptyDict == [k \in {} |-> 0]
Dict1(k, v) == [x \in {k} |-> v]

-----------------------------------------------------------------------------
(* Catalog: level table, badges, quests *)

base_xp == 100
NumLevels == 20

\* base_xp * 1.5 ** n, kept exactly as integer part and numerator of the
\* fraction over 2^n (the product would not fit the checker's integers)
RECURSIVE Pow2(_)
Pow2(n) == IF n = 0 THEN 1 ELSE 2 * Pow2(n - 1)

RECURSIVE xp_exact(_)
xp_exact(n) ==
    IF n = 0 THEN [int |-> base_xp, frac |-> 0]
    ELSE LET p == xp_exact(n - 1)
             T == 3 * p.frac + ((3 * p.int) % 2) * Pow2(n - 1)
         IN [int |-> (3 * p.int) \div 2 + T \div Pow2(n), frac |-> T % Pow2(n)]

titles == <<"Curious Beginner", "Eager Learner", "Knowledge Seeker", "Smart Student",
            "Bright Mind", "Study Star", "Academic Ace", "Learning Legend",
            "Wisdom Warrior", "Scholar Supreme", "Master Mind", "Genius Explorer",
            "Brilliant Brain", "Learning Lord", "Knowledge King", "Study Sage",
            "Academic Angel", "Wisdom Wizard", "Learning Luminary", "Ultimate Scholar">>

\* _initialize_level_system: xp_required = int(base_xp * multiplier ** (level - 1))
level_thresholds ==
    [level \in 1..NumLevels |->
        [xp_required |-> xp_exact(level - 1).int,
         title |-> titles[Min(level - 1, Len(titles) - 1) + 1]]]

Badge(req, xp) == [requirements |-> req, xp_reward |-> xp]

\* _initialize_badges, in the insertion order of the dict
BadgeOrder == <<"first_chat", "curious_mind", "math_rookie", "math_explorer", "math_master",
                "science_enthusiast", "reading_champion", "daily_learner", "study_warrior",
                "night_owl", "early_bird", "voice_explorer", "story_creator",
                "tutor_whisperer", "knowledge_seeker">>

badges ==
    [b \in {BadgeOrder[i] : i \in 1..Len(BadgeOrder)} |->
        CASE b = "first_chat" -> Badge(Dict1("messages_sent", 1), 50)
          [] b = "curious_mind" -> Badge(Dict1("unique_questions", 10), 100)
          [] b = "math_rookie" -> Badge(Dict1("math_interactions", 20), 150)
          [] b = "math_explorer" -> Badge(Dict1("math_interactions", 100), 300)
          [] b = "math_master" -> Badge(Dict1("math_interactions", 500), 750)
          [] b = "science_enthusiast" -> Badge(Dict1("science_interactions", 50), 200)
          [] b = "reading_champion" -> Badge(Dict1("books_read", 25), 250)
          [] b = "daily_learner" -> Badge(Dict1("daily_streak", 7), 200)
          [] b = "study_warrior" -> Badge(Dict1("daily_streak", 30), 1000)
          [] b = "night_owl" -> Badge(Dict1("late_night_study", 1), 75)
          [] b = "early_bird" -> Badge(Dict1("early_morning_study", 1), 75)
          [] b = "voice_explorer" -> Badge(Dict1("voice_interactions", 10), 125)
          [] b = "story_creator" -> Badge(Dict1("stories_generated", 5), 200)
          [] b = "tutor_whisperer" -> Badge(Dict1("all_tutors_one_day", 1), 500)
          [] b = "knowledge_seeker" -> Badge(Dict1("diverse_topics_week", 20), 750)]

NoBadge == ""           \* badge_reward = None
Quest(req, xp, badge, hours) ==
    [requirements |-> req, xp_reward |-> xp, badge_reward |-> badge, time_limit_hours |-> hours]

\* _initialize_quests
QuestIds == {"daily_explorer", "subject_hopper", "story_time", "math_marathon", "voice_challenger"}

quests ==
    [q \in QuestIds |->
        CASE q = "daily_explorer" -> Quest(Dict1("messages_today", 5), 100, NoBadge, 24)
          [] q = "subject_hopper" -> Quest(Dict1("different_tutors_today", 3), 150, "tutor_whisperer", 24)
          [] q = "story_time" -> Quest(Dict1("story_generated_and_read_today", 1), 125, NoBadge, 24)
          [] q = "math_marathon" -> Quest(Dict1("math_problems_week", 10), 300, "math_rookie", 168)
          [] q = "voice_challenger" -> Quest(Dict1("voice_interactions_today", 3), 175, NoBadge, 24)]

-----------------------------------------------------------------------------
(* The store and the results of calls *)

None == [none |-> TRUE]

Store ==
    [levels |-> student_levels_db, keys |-> student_levels_keys, badges |-> student_badges_db,
     streaks |-> student_streaks_db, quests |-> student_quests_db,
     stats |-> student_stats_db, bound |-> bound]

Ok(D, r) == [db |-> D, ret |-> r, exc |-> "none"]
Raise(D, e) == [db |-> D, ret |-> None, exc |-> e]

\* the rest of a method, F, run on the result r of the call before it
Bind(r, F(_)) == F(r)

\* self.<name> = GamificationStorage.<name>
Rebind(D, name) == [D EXCEPT !.bound = @ \cup {name}]

\* the accessors the startup hook rebinds (lifespan)
Accessors ==
    {"get_student_stats", "student_has_badge", "award_badge", "get_student_badges",
     "get_student_level", "save_student_level", "get_streak", "save_streak",
     "get_student_streaks", "get_active_quests", "save_quest_progress",
     "get_recent_achievements", "get_leaderboard"}

-----------------------------------------------------------------------------
(* GamificationStorage *)

NumStatKeys ==
    {"messages_sent", "math_interactions", "science_interactions", "reading_interactions",
     "general_interactions", "books_read", "voice_interactions", "stories_generated",
     "unique_questions", "late_night_study", "early_morning_study",
     "total_study_time_minutes", "consecutive_days"}

\* the dict a learner's statistics start from
NewStats ==
    [num |-> [k \in NumStatKeys |-> 0],
     different_tutors_used |-> [kind |-> "set", v |-> {}],
     first_chat_date |-> NoDate,
     last_activity_date |-> NoDate]

GamificationStorage_get_student_stats(D, s) ==
    LET D1 == IF D.stats[s] = Absent THEN [D EXCEPT !.stats[s] = NewStats] ELSE D
        st == D1.stats[s]
        copy == IF st.different_tutors_used.kind = "set"
                THEN [st EXCEPT !.different_tutors_used =
                                    [kind |-> "int", v |-> Cardinality(st.different_tutors_used.v)]]
                ELSE st
    IN Ok(D1, copy)

\* activity_data here is the stats_update dict: num holds its numeric entries,
\* tutor the value of its "different_tutors_used" entry ("" when it has none)
GamificationStorage_update_student_stats(D, s, activity_data, t) ==
    LET r == GamificationStorage_get_student_stats(D, s)
        stats == r.ret
        st1 == [stats EXCEPT !.num = [k \in NumStatKeys |-> @[k] + DictGet(activity_data.num, k)]]
        st2 == IF activity_data.tutor = "" THEN st1
               ELSE IF st1.different_tutors_used.kind = "set"
                    THEN [st1 EXCEPT !.different_tutors_used.v = @ \cup {activity_data.tutor}]
                    ELSE [st1 EXCEPT !.different_tutors_used = [kind |-> "str", v |-> activity_data.tutor]]
        st3 == [st2 EXCEPT !.last_activity_date = t,
                           !.first_chat_date = IF @ = NoDate THEN t ELSE @]
    IN Ok([r.db EXCEPT !.stats[s] = st3], None)

HasBadge(achievements, b) == \E i \in 1..Len(achievements) : achievements[i].badge_id = b

GamificationStorage_student_has_badge(D, s, b) == Ok(D, HasBadge(D.badges[s], b))

GamificationStorage_award_badge_no_check(D, s, b, t) ==
    Ok([D EXCEPT !.badges[s] = Append(@, [badge_id |-> b, earned_date |-> t])], None)

GamificationStorage_award_badge(D, s, b, t) ==
    IF HasBadge(D.badges[s], b) THEN Ok(D, None)
    ELSE Ok([D EXCEPT !.badges[s] = Append(@, [badge_id |-> b, earned_date |-> t])], None)

GamificationStorage_get_student_badges(D, s) ==
    Ok(D, [i \in 1..Len(D.badges[s]) |-> D.badges[s][i].badge_id])

\* a new learner's StudentLevel
NewLevel ==
    [current_level |-> 1, current_xp |-> 0, xp_to_next_level |-> 100,
     total_xp_earned |-> 0, title |-> "Curious Beginner"]

GamificationStorage_get_student_level(D, s) ==
    LET D1 == IF D.levels[s] = Absent
              THEN [D EXCEPT !.levels[s] = NewLevel, !.keys = Append(@, s)]
              ELSE D
    IN Ok(D1, D1.levels[s])

GamificationStorage_save_student_level(D, s, student_level) ==
    Ok([D EXCEPT !.levels[s] = student_level,
                 !.keys = IF D.levels[s] = Absent THEN Append(@, s) ELSE @], None)

GamificationStorage_get_streak(D, s) == Ok(D, D.streaks[s])

\* save_streak into a store keyed by the streak type alone
GamificationStorage_save_streak_by_type(D, s, streak) ==
    Ok([D EXCEPT !.streaks = [x \in Students |-> streak]], None)

GamificationStorage_save_streak(D, s, streak) == Ok([D EXCEPT !.streaks[s] = streak], None)

\* the fields of the StudentQuest model; hasattr is true of these only
StudentQuestFields ==
    {"quest_id", "student_id", "start_date", "progress", "completed", "completion_date"}

hasattr_StudentQuest(name) == name \in StudentQuestFields

\* is the quest at position i of the learner's list skipped as expired at time t
QuestSkippedAsExpired(quest, t) ==
    /\ quest.start_date # NoDate
    /\ hasattr_StudentQuest("time_limit_hours")
    /\ quest.quest_id \in DOMAIN quests
    /\ quests[quest.quest_id].time_limit_hours # 0
    /\ t > quest.start_date + quests[quest.quest_id].time_limit_hours

\* returns the positions, in the learner's list, of the quests it returns
\* (the returned objects are the stored ones)
RECURSIVE ActiveFrom(_, _, _)
ActiveFrom(qs, i, t) ==
    IF i > Len(qs) THEN <<>>
    ELSE IF qs[i].completed \/ QuestSkippedAsExpired(qs[i], t)
         THEN ActiveFrom(qs, i + 1, t)
         ELSE <<i>> \o ActiveFrom(qs, i + 1, t)

\* get_active_quests without the test of the completed flag
GamificationStorage_get_active_quests_with_completed(D, s, t) ==
    Ok(D, [i \in 1..Len(D.quests[s]) |-> i])

GamificationStorage_get_active_quests(D, s, t) == Ok(D, ActiveFrom(D.quests[s], 1, t))

RECURSIVE FirstWithId(_, _, _)
FirstWithId(qs, q, i) ==
    IF i > Len(qs) THEN 0
    ELSE IF qs[i].quest_id = q THEN i ELSE FirstWithId(qs, q, i + 1)

\* save_quest_progress that always appends
GamificationStorage_save_quest_progress_append(D, s, quest_progress) ==
    Ok([D EXCEPT !.quests[s] = Append(@, quest_progress)], None)

GamificationStorage_save_quest_progress(D, s, quest_progress) ==
    LET i == FirstWithId(D.quests[s], quest_progress.quest_id, 1)
    IN IF i # 0 THEN Ok([D EXCEPT !.quests[s][i] = quest_progress], None)
       ELSE Ok([D EXCEPT !.quests[s] = Append(@, quest_progress)], None)

\* leaderboard.sort(key=total_xp, reverse=True) adding one entry: the sort is
\* stable, so the entry goes behind the entries with the same or a larger key
RECURSIVE sort_insert(_, _, _)
sort_insert(sorted, entry, i) ==
    IF i > Len(sorted) THEN Append(sorted, entry)
    ELSE IF sorted[i].total_xp >= entry.total_xp THEN sort_insert(sorted, entry, i + 1)
    ELSE SubSeq(sorted, 1, i - 1) \o <<entry>> \o SubSeq(sorted, i, Len(sorted))

\* the sorted list of the first n entries
RECURSIVE sort_total_xp_reverse(_, _)
sort_total_xp_reverse(leaderboard, n) ==
    IF n = 0 THEN <<>>
    ELSE sort_insert(sort_total_xp_reverse(leaderboard, n - 1), leaderboard[n], 1)

\* limit is positive; the entries are built in the order of the dict
GamificationStorage_get_leaderboard_data(D, limit) ==
    LET leaderboard ==
            [i \in 1..Len(D.keys) |->
                [student_id |-> D.keys[i],
                 student_name |-> "Student " \o D.keys[i],
                 level |-> D.levels[D.keys[i]].current_level,
                 total_xp |-> D.levels[D.keys[i]].total_xp_earned,
                 title |-> D.levels[D.keys[i]].title,
                 badges_earned |-> Len(D.badges[D.keys[i]])]]
        sorted == sort_total_xp_reverse(leaderboard, Len(leaderboard))
    IN Ok(D, [i \in 1..Min(limit, Len(sorted)) |-> [entry |-> sorted[i], rank |-> i]])

-----------------------------------------------------------------------------
(* GamificationEngine: the placeholder accessors.  The first call of each   *)
(* rebinds the attribute; the ones that delegate behave like the storage    *)
(* function from the first call on, the others only from the second.        *)

get_student_stats(D, s) ==
    IF "get_student_stats" \in D.bound THEN GamificationStorage_get_student_stats(D, s)
    ELSE Ok(Rebind(D, "get_student_stats"), None)

student_has_badge(D, s, b) ==
    GamificationStorage_student_has_badge(Rebind(D, "student_has_badge"), s, b)

award_badge(D, s, b, t) ==
    IF "award_badge" \in D.bound THEN GamificationStorage_award_badge(D, s, b, t)
    ELSE Ok(Rebind(D, "award_badge"), None)

get_student_level(D, s) ==
    GamificationStorage_get_student_level(Rebind(D, "get_student_level"), s)

save_student_level(D, s, student_level) ==
    GamificationStorage_save_student_level(Rebind(D, "save_student_level"), s, student_level)

get_streak(D, s) == GamificationStorage_get_streak(Rebind(D, "get_streak"), s)

save_streak(D, s, streak) ==
    IF "save_streak" \in D.bound THEN GamificationStorage_save_streak(D, s, streak)
    ELSE Ok(Rebind(D, "save_streak"), None)

get_active_quests(D, s, t) ==
    GamificationStorage_get_active_quests(Rebind(D, "get_active_quests"), s, t)

save_quest_progress(D, s, quest_progress) ==
    GamificationStorage_save_quest_progress(Rebind(D, "save_quest_progress"), s, quest_progress)

\* not a placeholder: it calls the storage function from the first call on
get_leaderboard(D, limit) == GamificationStorage_get_leaderboard_data(D, limit)

get_student_badges(D, s) ==
    GamificationStorage_get_student_badges(Rebind(D, "get_student_badges"), s)

-----------------------------------------------------------------------------
(* GamificationEngine.add_xp *)

\* the while loop of add_xp on the fetched StudentLevel; a level outside the
\* table makes the lookup raise KeyError after the level was incremented
\* add_xp_loop with an if in place of the while: one level-up at most
add_xp_loop_once(student_level) ==
    IF student_level.current_xp >= student_level.xp_to_next_level
    THEN LET lv == [student_level EXCEPT !.current_xp = @ - student_level.xp_to_next_level,
                                          !.current_level = @ + 1]
         IN IF lv.current_level \notin DOMAIN level_thresholds
            THEN [level |-> lv, exc |-> "KeyError", iterated |-> TRUE]
            ELSE [level |-> [lv EXCEPT !.title = level_thresholds[lv.current_level].title,
                                       !.xp_to_next_level =
                                           level_thresholds[lv.current_level].xp_required],
                  exc |-> "none", iterated |-> TRUE]
    ELSE [level |-> student_level, exc |-> "none", iterated |-> FALSE]

\* add_xp_loop that stops at the last level of the table without an error
RECURSIVE add_xp_loop_capped(_)
add_xp_loop_capped(student_level) ==
    IF student_level.current_xp >= student_level.xp_to_next_level
       /\ student_level.current_level + 1 \in DOMAIN level_thresholds
    THEN LET lv == [student_level EXCEPT !.current_xp = @ - student_level.xp_to_next_level,
                                          !.current_level = @ + 1]
             level_data == level_thresholds[lv.current_level]
             r == add_xp_loop_capped([lv EXCEPT !.title = level_data.title,
                                                !.xp_to_next_level = level_data.xp_required])
         IN [r EXCEPT !.iterated = TRUE]
    ELSE [level |-> student_level, exc |-> "none", iterated |-> FALSE]

RECURSIVE add_xp_loop(_)
add_xp_loop(student_level) ==
    IF student_level.current_xp >= student_level.xp_to_next_level
    THEN LET lv == [student_level EXCEPT !.current_xp = @ - student_level.xp_to_next_level,
                                          !.current_level = @ + 1]
         IN IF lv.current_level \notin DOMAIN level_thresholds
            THEN [level |-> lv, exc |-> "KeyError", iterated |-> TRUE]
            ELSE LET level_data == level_thresholds[lv.current_level]
                     r == add_xp_loop([lv EXCEPT !.title = level_data.title,
                                                 !.xp_to_next_level = level_data.xp_required])
                 IN [r EXCEPT !.iterated = TRUE]
    ELSE [level |-> student_level, exc |-> "none", iterated |-> FALSE]

\* the value add_xp returns: the function has no return statement
add_xp_return(loop) == None

add_xp(D, s, xp_amount) ==
    Bind(get_student_level(D, s), LAMBDA got :
    Bind(add_xp_loop([got.ret EXCEPT !.current_xp = @ + xp_amount,
                                     !.total_xp_earned = @ + xp_amount]), LAMBDA loop :
    \* the StudentLevel is the stored object: its fields are already changed
    Bind([(IF loop.iterated
           THEN Rebind(Rebind(got.db, "get_student_badges"), "get_student_level")
           ELSE Rebind(got.db, "get_student_badges"))
              EXCEPT !.levels[s] = loop.level], LAMBDA D3 :
        IF loop.exc # "none" THEN Raise(D3, loop.exc)
        ELSE Ok(save_student_level(D3, s, loop.level).db, add_xp_return(loop)))))

-----------------------------------------------------------------------------
(* Badge engine *)

\* student_stats = None (or activity_data = None) makes the first .get raise
\* AttributeError (every badge of the catalog has a requirement): result "error"
_check_badge_requirements(badge, student_stats, activity_data) ==
    IF student_stats = None \/ activity_data = None THEN "error"
    ELSE IF \A req_key \in DOMAIN badge.requirements :
                DictGet(student_stats.num, req_key) + DictGet(activity_data, req_key)
                    >= badge.requirements[req_key]
         THEN "met" ELSE "unmet"

\* one iteration of the for loop of check_and_award_badges, for the badge at
\* position i of the catalog; ret is the list of awarded badges after it
check_and_award_step(D, s, student_stats, activity_data, t, i, awarded_badges) ==
    Bind(BadgeOrder[i], LAMBDA badge_id :
    Bind(student_has_badge(D, s, badge_id), LAMBDA has :
    Bind(_check_badge_requirements(badges[badge_id], student_stats, activity_data), LAMBDA chk :
        IF has.ret THEN Ok(has.db, awarded_badges)
        ELSE IF chk = "error" THEN Raise(has.db, "AttributeError")
        ELSE IF chk = "unmet" THEN Ok(has.db, awarded_badges)
        ELSE Bind(add_xp(award_badge(has.db, s, badge_id, t).db, s, badges[badge_id].xp_reward),
                  LAMBDA xp :
                      IF xp.exc # "none" THEN Raise(xp.db, xp.exc)
                      ELSE Ok(xp.db, Append(awarded_badges, badge_id))))))

\* the for loop of check_and_award_badges from position i of the catalog
RECURSIVE check_and_award_loop(_, _, _, _, _, _, _)
check_and_award_loop(D, s, student_stats, activity_data, t, i, awarded_badges) ==
    IF i > Len(BadgeOrder) THEN Ok(D, awarded_badges)
    ELSE Bind(check_and_award_step(D, s, student_stats, activity_data, t, i, awarded_badges),
              LAMBDA step :
                  IF step.exc # "none" THEN step
                  ELSE check_and_award_loop(step.db, s, student_stats, activity_data, t,
                                            i + 1, step.ret))

check_and_award_badges(D, s, activity_data, t) ==
    Bind(get_student_stats(D, s), LAMBDA st :
        check_and_award_loop(st.db, s, st.ret, activity_data, t, 1, <<>>))

-----------------------------------------------------------------------------
(* Streak tracker *)

check_streak_badges(D, s, streak, t) ==
    IF streak.current_count >= 7
    THEN Bind(student_has_badge(D, s, "daily_learner"), LAMBDA has :
            IF ~has.ret THEN award_badge(has.db, s, "daily_learner", t)
            ELSE IF streak.current_count >= 30
                 THEN Bind(student_has_badge(has.db, s, "study_warrior"), LAMBDA has2 :
                         IF ~has2.ret THEN award_badge(has2.db, s, "study_warrior", t)
                         ELSE Ok(has2.db, None))
                 ELSE Ok(has.db, None))
    ELSE Ok(D, None)

\* streak_transition with a same-day touch counted as a further day
streak_transition_sameday_counts(daily_streak, t) ==
    LET today == date(t)
        last_date == date(daily_streak.last_activity_date)
    IN IF last_date = today \/ last_date = today - 1
       THEN [daily_streak EXCEPT !.current_count = @ + 1,
                                 !.max_count = Max(@, daily_streak.current_count + 1),
                                 !.last_activity_date = t]
       ELSE [daily_streak EXCEPT !.current_count = 1,
                                 !.last_activity_date = t,
                                 !.is_active = TRUE]

\* streak_transition comparing elapsed time instead of calendar dates
streak_transition_by_hours(daily_streak, t) ==
    LET days == (t - daily_streak.last_activity_date) \div 24
    IN IF days = 0 THEN daily_streak
       ELSE IF days = 1
            THEN [daily_streak EXCEPT !.current_count = @ + 1,
                                      !.max_count = Max(@, daily_streak.current_count + 1),
                                      !.last_activity_date = t]
            ELSE [daily_streak EXCEPT !.current_count = 1,
                                      !.last_activity_date = t,
                                      !.is_active = TRUE]

\* streak_transition whose reset forgets the record
streak_transition_reset_max(daily_streak, t) ==
    LET today == date(t)
        last_date == date(daily_streak.last_activity_date)
    IN IF last_date = today THEN daily_streak
       ELSE IF last_date = today - 1
            THEN [daily_streak EXCEPT !.current_count = @ + 1,
                                      !.max_count = Max(@, daily_streak.current_count + 1),
                                      !.last_activity_date = t]
            ELSE [daily_streak EXCEPT !.current_count = 1,
                                      !.max_count = 1,
                                      !.last_activity_date = t,
                                      !.is_active = TRUE]

\* streak_transition that marks a broken streak as not active
streak_transition_break_deactivates(daily_streak, t) ==
    LET today == date(t)
        last_date == date(daily_streak.last_activity_date)
    IN IF last_date = today THEN daily_streak
       ELSE IF last_date = today - 1
            THEN [daily_streak EXCEPT !.current_count = @ + 1,
                                      !.max_count = Max(@, daily_streak.current_count + 1),
                                      !.last_activity_date = t]
            ELSE [daily_streak EXCEPT !.current_count = 1,
                                      !.last_activity_date = t,
                                      !.is_active = FALSE]

\* the branch of update_streaks for an existing record
streak_transition(daily_streak, t) ==
    LET today == date(t)
        last_date == date(daily_streak.last_activity_date)
    IN IF last_date = today THEN daily_streak
       ELSE IF last_date = today - 1
            THEN [daily_streak EXCEPT !.current_count = @ + 1,
                                      !.max_count = Max(@, daily_streak.current_count + 1),
                                      !.last_activity_date = t]
            ELSE [daily_streak EXCEPT !.current_count = 1,
                                      !.last_activity_date = t,
                                      !.is_active = TRUE]

update_streaks(D, s, t) ==
    Bind(get_streak(D, s), LAMBDA got :
    Bind(IF got.ret = Absent
         THEN [current_count |-> 1, max_count |-> 1, last_activity_date |-> t, is_active |-> TRUE]
         ELSE streak_transition(got.ret, t), LAMBDA daily_streak :
    \* an existing record is the stored object; a new one is stored by the save only
    Bind(IF got.ret = Absent THEN got.db ELSE [got.db EXCEPT !.streaks[s] = daily_streak],
         LAMBDA D1 :
             Ok(check_streak_badges(save_streak(D1, s, daily_streak).db, s, daily_streak, t).db,
                daily_streak))))

-----------------------------------------------------------------------------
(* Quest engine *)

\* _is_quest_completed asking for more than the threshold
_is_quest_completed_strict(quest, progress) ==
    \A req_key \in DOMAIN quest.requirements :
        DictGet(progress, req_key) > quest.requirements[req_key]

_is_quest_completed(quest, progress) ==
    \A req_key \in DOMAIN quest.requirements :
        DictGet(progress, req_key) >= quest.requirements[req_key]

\* the for loop of update_quest_progress over the active quests; active holds
\* positions in the learner's list, whose objects are updated in place
\* the save at the end of an iteration: if updated
save_if(updated, D, s, i) ==
    IF updated THEN save_quest_progress(D, s, D.quests[s][i]).db ELSE D

RECURSIVE update_quest_loop(_, _, _, _, _, _, _)
update_quest_loop(D, s, activity_data, t, active, n, completed_quests) ==
    IF n > Len(active) THEN Ok(D, completed_quests)
    ELSE IF D.quests[s][active[n]].quest_id \notin DOMAIN quests THEN Raise(D, "KeyError")
    \* req_key in None
    ELSE IF activity_data = None THEN Raise(D, "TypeError")
    ELSE Bind(active[n], LAMBDA i :
         Bind(D.quests[s][i], LAMBDA quest_progress :
         Bind(quests[quest_progress.quest_id], LAMBDA quest :
         Bind(DOMAIN quest.requirements \cap DOMAIN activity_data, LAMBDA keys :
         Bind([k \in DOMAIN quest_progress.progress \cup keys |->
                  IF k \in keys
                  THEN DictGet(quest_progress.progress, k) + activity_data[k]
                  ELSE quest_progress.progress[k]], LAMBDA progress :
             IF _is_quest_completed(quest, progress)
             THEN Bind(add_xp([D EXCEPT !.quests[s][i].progress = progress,
                                        !.quests[s][i].completed = TRUE,
                                        !.quests[s][i].completion_date = t],
                              s, quest.xp_reward), LAMBDA xp :
                      IF xp.exc # "none" THEN Raise(xp.db, xp.exc)
                      ELSE update_quest_loop(
                               save_if(keys # {},
                                       IF quest.badge_reward # NoBadge
                                       THEN award_badge(xp.db, s, quest.badge_reward, t).db
                                       ELSE xp.db,
                                       s, i),
                               s, activity_data, t, active, n + 1,
                               Append(completed_quests, quest_progress.quest_id)))
             ELSE update_quest_loop(
                      save_if(keys # {}, [D EXCEPT !.quests[s][i].progress = progress], s, i),
                      s, activity_data, t, active, n + 1, completed_quests))))))

update_quest_progress(D, s, activity_data, t) ==
    Bind(get_active_quests(D, s, t), LAMBDA act :
        update_quest_loop(act.db, s, activity_data, t, act.ret, 1, <<>>))

start_daily_quest(D, s, quest_id, t) ==
    Bind(get_active_quests(D, s, t), LAMBDA act :
        IF \E n \in 1..Len(act.ret) : act.db.quests[s][act.ret[n]].quest_id = quest_id
        THEN Ok(act.db, FALSE)
        ELSE Ok(save_quest_progress(act.db, s,
                    [quest_id |-> quest_id, start_date |-> t, progress |-> EmptyDict,
                     completed |-> FALSE, completion_date |-> NoDate]).db,
                TRUE))

\* generate_daily_quests that offers voice_challenger at every level
generate_daily_quests_ungated(D, s) ==
    Bind(get_student_stats(D, s), LAMBDA st :
    Bind(get_student_level(st.db, s), LAMBDA lv :
        IF st.ret = None THEN Raise(lv.db, "AttributeError")
        ELSE Ok(lv.db,
                <<"daily_explorer", "voice_challenger">>
                \o (IF lv.ret.current_level >= 5 THEN <<"story_time">> ELSE <<>>)
                \o (IF DictGet(st.ret.num, "math_interactions") > 5
                    THEN <<"math_marathon">> ELSE <<>>))))

\* generate_daily_quests up to the sampling: the quests the learner may be
\* offered, in the order they are appended
generate_daily_quests(D, s) ==
    Bind(get_student_stats(D, s), LAMBDA st :
    Bind(get_student_level(st.db, s), LAMBDA lv :
        \* student_stats.get on None
        IF st.ret = None THEN Raise(lv.db, "AttributeError")
        ELSE Ok(lv.db,
                <<"daily_explorer">>
                \o (IF lv.ret.current_level >= 3 THEN <<"voice_challenger">> ELSE <<>>)
                \o (IF lv.ret.current_level >= 5 THEN <<"story_time">> ELSE <<>>)
                \o (IF DictGet(st.ret.num, "math_interactions") > 5
                    THEN <<"math_marathon">> ELSE <<>>))))

\* random.sample(population, k): any k distinct elements in any order
random_sample(population, k) ==
    {q \in [1..k -> {population[i] : i \in 1..Len(population)}] :
        \A i, j \in 1..k : i # j => q[i] # q[j]}

\* the samples random.sample can return to a call of generate_daily_quests
\* (<<>> when the call raises before it)
generate_daily_quests_samples(D, s) ==
    Bind(generate_daily_quests(D, s), LAMBDA gen :
        IF gen.exc # "none" THEN {<<>>}
        ELSE random_sample(gen.ret, Min(3, Len(gen.ret))))

\* generate_daily_quests with its return value; daily_quests is the sample drawn
generate_daily_quests_return(D, s, daily_quests) ==
    Bind(generate_daily_quests(D, s), LAMBDA gen :
        IF gen.exc # "none" THEN gen ELSE Ok(gen.db, daily_quests))

\* for quest in daily_quests[:3]: start_daily_quest(student_id, quest.id)
RECURSIVE start_quests_loop(_, _, _, _, _)
start_quests_loop(D, s, daily_quests, n, t) ==
    IF n > Min(3, Len(daily_quests)) THEN Ok(D, None)
    ELSE start_quests_loop(start_daily_quest(D, s, daily_quests[n], t).db,
                           s, daily_quests, n + 1, t)

\* get_student_dashboard_data up to the query of the active quests; the
\* streak and recent-achievement accessors only read
dashboard_data_fetch(D, s, t) ==
    Bind(get_student_level(D, s), LAMBDA level_info :
    Bind(get_student_badges(level_info.db, s), LAMBDA bdg :
    Bind(get_student_stats(Rebind(bdg.db, "get_student_streaks"), s), LAMBDA st :
    Bind(get_active_quests(Rebind(st.db, "get_recent_achievements"), s, t), LAMBDA act :
        [db |-> act.db, stats |-> st.ret, active_quests |-> act.ret]))))

\* the samples random.sample can return to this call (<<>> when it is not made)
daily_quest_samples(D, s, t) ==
    Bind(dashboard_data_fetch(D, s, t), LAMBDA got :
        IF Len(got.active_quests) # 0 THEN {<<>>}
        ELSE Bind(generate_daily_quests(got.db, s), LAMBDA gen :
                IF gen.exc # "none" THEN {<<>>}
                ELSE random_sample(gen.ret, Min(3, Len(gen.ret)))))

\* the rest of get_student_dashboard_data; daily_quests is the sample drawn
dashboard_data_rest(got, s, t, daily_quests) ==
    Bind(IF Len(got.active_quests) # 0 THEN Ok(got.db, None)
         ELSE Bind(generate_daily_quests(got.db, s), LAMBDA gen :
                 IF gen.exc # "none" THEN gen
                 ELSE start_quests_loop(gen.db, s, daily_quests, 1, t)), LAMBDA started :
        IF started.exc # "none"
        THEN Ok(started.db, [error |-> started.exc, active_count |-> 0])
        \* stats.get on None, when the dict returned is built
        ELSE IF got.stats = None
        THEN Ok(started.db, [error |-> "AttributeError", active_count |-> 0])
        ELSE Ok(started.db,
                [error |-> "",
                 active_count |-> Len(get_active_quests(started.db, s, t).ret)]))

get_student_dashboard_data(D, s, t, daily_quests) ==
    dashboard_data_rest(dashboard_data_fetch(D, s, t), s, t, daily_quests)

\* the start-quest endpoint: "" stands for a request without a quest_id; the
\* HTTPException of an invalid id is caught by the endpoint's own except clause
start_quest(D, s, quest_id, t) ==
    IF quest_id = "" \/ quest_id \notin DOMAIN quests
    THEN Ok(D, [quest_started |-> FALSE, error |-> "Invalid quest ID"])
    ELSE Bind(start_daily_quest(D, s, quest_id, t), LAMBDA success :
            Ok(success.db,
               [quest_started |-> success.ret,
                error |-> IF success.ret THEN ""
                          ELSE "Quest already active or could not be started"]))

-----------------------------------------------------------------------------
(* Activity processor *)

\* int(x * 0.5) for an integer x: truncation toward zero
half(x) == IF x >= 0 THEN x \div 2 ELSE -((-x) \div 2)

ActivityBaseXp ==
    [a \in {"message_sent", "voice_used", "book_generated", "chapter_completed", "reading_session"} |->
        CASE a = "message_sent" -> 5
          [] a = "voice_used" -> 10
          [] a = "book_generated" -> 20
          [] a = "chapter_completed" -> 30
          [] a = "reading_session" -> 40]

\* XPCalculator.calculate_activity_xp: the value of "total_xp"
calculate_activity_xp(activity_type, activity_data) ==
    LET xp == IF activity_type \in DOMAIN ActivityBaseXp THEN ActivityBaseXp[activity_type] ELSE 5
    IN IF activity_type = "reading_session"
       THEN xp + half(activity_data.accuracy_score)
               + Min(half(activity_data.words_per_minute), 50)
               + half(activity_data.comprehension_score)
       ELSE xp

\* the activity_data of a report: "" stands for a missing subject or tutor_type
NoData ==
    [subject |-> "", tutor_type |-> "", accuracy_score |-> 0,
     words_per_minute |-> 0, comprehension_score |-> 0]

\* the stats dict as a dict of numbers (its two dates and a tutor name are
\* left out: no requirement of the catalog names them)
StatsAsDict(st) ==
    [k \in NumStatKeys \cup (IF st.different_tutors_used.kind = "int"
                             THEN {"different_tutors_used"} ELSE {}) |->
        IF k \in NumStatKeys THEN st.num[k] ELSE st.different_tutors_used.v]

\* if not student_has_badge(badge_id): award_badge(badge_id)
award_if_new(D, s, badge_id, t) ==
    Bind(student_has_badge(D, s, badge_id), LAMBDA has :
        IF ~has.ret THEN award_badge(has.db, s, badge_id, t) ELSE Ok(has.db, None))

\* stats = get_student_stats(); if stats.get(key, 0) >= n: award the badge if new
stats_block(D, s, key, n, badge_id, t) ==
    Bind(get_student_stats(D, s), LAMBDA st :
        IF st.ret = None THEN Raise(st.db, "AttributeError")
        ELSE IF DictGet(st.ret.num, key) >= n THEN award_if_new(st.db, s, badge_id, t)
        ELSE Ok(st.db, None))

\* the Tutor Whisperer block: the badge needs a set of four tutors
tutor_block(D, s, t) ==
    Bind(get_student_stats(D, s), LAMBDA st :
        IF st.ret = None THEN Raise(st.db, "AttributeError")
        ELSE IF st.ret.different_tutors_used.kind = "set"
                /\ Cardinality(st.ret.different_tutors_used.v) >= 4
             THEN award_if_new(st.db, s, "tutor_whisperer", t)
             ELSE Ok(st.db, None))

check_special_achievements(D, s, activity_type, activity_data, t) ==
    Bind(hour(t), LAMBDA current_hour :
    Bind(IF current_hour >= 21 \/ current_hour <= 5
         THEN award_if_new(D, s, "night_owl", t) ELSE Ok(D, None), LAMBDA owl :
    Bind(IF current_hour <= 7
         THEN award_if_new(owl.db, s, "early_bird", t) ELSE owl, LAMBDA bird :
    Bind(IF activity_type = "voice_used"
         THEN stats_block(bird.db, s, "voice_interactions", 10, "voice_explorer", t)
         ELSE Ok(bird.db, None), LAMBDA voice :
    IF voice.exc # "none" THEN voice ELSE
    Bind(IF activity_type = "book_generated"
         THEN stats_block(voice.db, s, "stories_generated", 5, "story_creator", t)
         ELSE Ok(voice.db, None), LAMBDA story :
    IF story.exc # "none" THEN story ELSE
    Bind(IF activity_data.tutor_type # ""
         THEN tutor_block(story.db, s, t) ELSE Ok(story.db, None), LAMBDA tutor :
        IF tutor.exc # "none" THEN tutor ELSE Ok(tutor.db, None)))))))

NoResults ==
    [xp_gained |-> 0, new_badges |-> <<>>, completed_quests |-> <<>>,
     streak_updates |-> None, level_up |-> FALSE, error |-> ""]

\* the stats_update dict of step 2
stats_update(activity_type, activity_data, t) ==
    LET current_hour == hour(t)
        clock == IF current_hour >= 21 \/ current_hour <= 5 THEN {"late_night_study"}
                 ELSE IF current_hour <= 7 THEN {"early_morning_study"} ELSE {}
        subject == IF activity_data.subject # ""
                   THEN {activity_data.subject \o "_interactions"} ELSE {}
    IN [num |-> [k \in {activity_type, "total_activities"} \cup subject \cup clock |-> 1],
        tutor |-> activity_data.tutor_type]

\* steps 2 to 6 of process_student_activity, entered with the results of step 1
\* step 4 on its own: the stats just read are passed as the activity_data of
\* the badge check
check_badges_on_current_stats(D, s, t) ==
    Bind(get_student_stats(D, s), LAMBDA cur :
        check_and_award_badges(cur.db, s,
                               IF cur.ret = None THEN None ELSE StatsAsDict(cur.ret), t))

process_steps_2_to_6(D, s, activity_type, activity_data, t, results) ==
    Bind(GamificationStorage_update_student_stats(
             D, s, stats_update(activity_type, activity_data, t), t), LAMBDA upd :
    Bind(update_streaks(upd.db, s, t), LAMBDA str :
    Bind([results EXCEPT !.streak_updates =
             [current_count |-> str.ret.current_count,
              is_record |-> str.ret.current_count >= str.ret.max_count,
              is_active |-> str.ret.is_active]], LAMBDA res3 :
    Bind(get_student_stats(str.db, s), LAMBDA cur :
    Bind(IF cur.ret = None THEN None ELSE StatsAsDict(cur.ret), LAMBDA current_stats :
    Bind(check_and_award_badges(cur.db, s, current_stats, t), LAMBDA bad :
    IF bad.exc # "none" THEN Ok(bad.db, [res3 EXCEPT !.error = bad.exc]) ELSE
    Bind(update_quest_progress(bad.db, s, current_stats, t), LAMBDA qst :
    IF qst.exc # "none"
    THEN Ok(qst.db, [res3 EXCEPT !.new_badges = bad.ret, !.error = qst.exc]) ELSE
    Bind(check_special_achievements(qst.db, s, activity_type, activity_data, t), LAMBDA spc :
        Ok(spc.db, [res3 EXCEPT !.new_badges = bad.ret, !.completed_quests = qst.ret,
                                !.error = IF spc.exc # "none" THEN spc.exc ELSE @])))))))))

\* process_student_activity that undoes what it applied when a step fails
process_student_activity_rollback(D, s, activity_type, activity_data, t) ==
    Bind(calculate_activity_xp(activity_type, activity_data), LAMBDA total_xp :
    Bind(add_xp(D, s, total_xp), LAMBDA xp_info :
        IF xp_info.exc # "none" THEN Ok(D, [NoResults EXCEPT !.error = xp_info.exc])
        ELSE IF xp_info.ret = None
        THEN Ok(D, [NoResults EXCEPT !.xp_gained = total_xp, !.error = "TypeError"])
        ELSE process_steps_2_to_6(xp_info.db, s, activity_type, activity_data, t,
                 [NoResults EXCEPT !.xp_gained = total_xp, !.level_up = xp_info.ret.level_up])))

process_student_activity(D, s, activity_type, activity_data, t) ==
    Bind(calculate_activity_xp(activity_type, activity_data), LAMBDA total_xp :
    Bind(add_xp(D, s, total_xp), LAMBDA xp_info :
        IF xp_info.exc # "none" THEN Ok(xp_info.db, [NoResults EXCEPT !.error = xp_info.exc])
        \* xp_info["level_up"] on None raises TypeError
        ELSE IF xp_info.ret = None
        THEN Ok(xp_info.db, [NoResults EXCEPT !.xp_gained = total_xp, !.error = "TypeError"])
        ELSE process_steps_2_to_6(xp_info.db, s, activity_type, activity_data, t,
                 [NoResults EXCEPT !.xp_gained = total_xp, !.level_up = xp_info.ret.level_up])))

-----------------------------------------------------------------------------
(* States and the frame shared by all operations *)

NoCall == [op |-> "none"]

EmptyStore(b) ==
    [levels |-> [s \in Students |-> Absent], keys |-> <<>>,
     badges |-> [s \in Students |-> <<>>],
     streaks |-> [s \in Students |-> Absent], quests |-> [s \in Students |-> <<>>],
     stats |-> [s \in Students |-> Absent], bound |-> b]

NoHistory ==
    [calls |-> 0,
     xp_applied |-> [s \in Students |-> 0],
     first_touch |-> [s \in Students |-> NoDate],
     run |-> [s \in Students |-> 0],
     reported |-> [s \in Students |-> 0],
     quest_reports |-> [s \in Students |-> 0],
     tutors |-> [s \in Students |-> {}],
     awarded |-> [s \in Students |-> [b \in DOMAIN badges |-> 0]]]

\* a coroutine that was not created yet
TaskIds == 1..MaxTasks
IdleTask == [pc |-> "idle"]

\* the engine is created with no accessor rebound; the startup hook of the
\* regular server rebinds them all, the serverless handler runs no hook
InitAt(t) ==
    /\ now = t
    /\ \E b \in {{}, Accessors} :
          /\ bound = b
          /\ student_levels_db = EmptyStore(b).levels
          /\ student_levels_keys = EmptyStore(b).keys
          /\ student_badges_db = EmptyStore(b).badges
          /\ student_streaks_db = EmptyStore(b).streaks
          /\ student_quests_db = EmptyStore(b).quests
          /\ student_stats_db = EmptyStore(b).stats
    /\ tasks = [k \in TaskIds |-> IdleTask]
    /\ last = NoCall
    /\ hist = NoHistory

Init == InitAt(0)

\* the store becomes r.db; the call is recorded with the store it started from
ApplyTo(op, s, arg, r, h) ==
    /\ student_levels_db' = r.db.levels
    /\ student_levels_keys' = r.db.keys
    /\ student_badges_db' = r.db.badges
    /\ student_streaks_db' = r.db.streaks
    /\ student_quests_db' = r.db.quests
    /\ student_stats_db' = r.db.stats
    /\ bound' = r.db.bound
    /\ last' = [op |-> op, student |-> s, arg |-> arg, ret |-> r.ret, exc |-> r.exc,
                pre |-> Store, at |-> now]
    /\ hist' = h
    /\ UNCHANGED now

\* a call made outside the submitted tasks
Apply(op, s, arg, r, h) == ApplyTo(op, s, arg, r, h) /\ UNCHANGED tasks

Called(h) == [h EXCEPT !.calls = @ + 1]

-----------------------------------------------------------------------------
(* Progression ledger on its own: sequences of add_xp calls *)

XpAmounts == {-10, 0, 10, 95, 250, 221683, 900000}

AddXp(s, xp_amount) ==
    /\ hist.calls < MaxXpCalls
    /\ Apply("add_xp", s, xp_amount, add_xp(Store, s, xp_amount),
             [Called(hist) EXCEPT !.xp_applied[s] = @ + xp_amount])

NextXp == \E xp_amount \in XpAmounts : AddXp("s1", xp_amount)

SpecXp == Init /\ [][NextXp]_vars

\* C1: after every add_xp call with a non-negative amount the learner's
\* total_xp_earned is the sum of the amounts applied so far and
\* current_xp < xp_to_next_level
C1_XpTotalAndCarry ==
    \A s \in Students :
        student_levels_db[s] # Absent =>
            /\ student_levels_db[s].total_xp_earned = hist.xp_applied[s]
            /\ student_levels_db[s].current_xp < student_levels_db[s].xp_to_next_level

PreLevel == IF last.pre.levels[last.student] = Absent THEN NewLevel
            ELSE last.pre.levels[last.student]
PostLevel == student_levels_db[last.student]

\* the sum of the thresholds of the levels a to b of the table
RECURSIVE SumThresholds(_, _)
SumThresholds(a, b) ==
    IF a > b THEN 0 ELSE level_thresholds[a].xp_required + SumThresholds(a + 1, b)

\* C12: an add_xp of a non-negative amount that ends inside the level table
\* subtracts the threshold of every level it leaves and of no other, so that
\* current_xp ends below the threshold of the final level, and leaves
\* xp_to_next_level and title equal to the table's entry of the final level
C12_LevelUpCarry ==
    (/\ last.op = "add_xp" /\ last.arg >= 0
     /\ PostLevel.current_level \in DOMAIN level_thresholds)
        => /\ PostLevel.current_level >= PreLevel.current_level
           /\ PreLevel.current_xp + last.arg =
                  PostLevel.current_xp
                     + SumThresholds(PreLevel.current_level, PostLevel.current_level - 1)
           /\ PostLevel.current_xp < level_thresholds[PostLevel.current_level].xp_required
           /\ PostLevel.current_level > PreLevel.current_level => PostLevel.current_xp >= 0
           /\ PostLevel.xp_to_next_level = level_thresholds[PostLevel.current_level].xp_required
           /\ PostLevel.title = level_thresholds[PostLevel.current_level].title

\* 95 of 100 plus 10
C12_Witness ==
    /\ last.op = "add_xp" /\ last.arg = 10
    /\ PreLevel.current_level = 1 /\ PreLevel.current_xp = 95 /\ PreLevel.xp_to_next_level = 100
    /\ PostLevel.current_level = 2 /\ PostLevel.current_xp = 5
    /\ PostLevel.xp_to_next_level = 150 /\ PostLevel.title = "Eager Learner"

\* C13: add_xp returns a result whose level_up flag tells whether the call
\* raised the level, with the final level and title
C13_AddXpReturnsLevelUp ==
    (last.op = "add_xp" /\ last.exc = "none")
        => /\ last.ret # None
           /\ last.ret.level_up = (PostLevel.current_level > PreLevel.current_level)
           /\ last.ret.new_level = PostLevel.current_level
           /\ last.ret.title = PostLevel.title

\* C19: add_xp with a negative amount ends in an error and leaves the
\* learner's StudentLevel as it was
C19_NegativeAmountRejected ==
    (last.op = "add_xp" /\ last.arg < 0)
        => /\ last.exc # "none"
           /\ PostLevel = PreLevel

\* would this add_xp take the learner above the last level of the table
Overflows ==
    /\ last.op = "add_xp" /\ last.arg >= 0
    /\ IF PreLevel.current_level \in DOMAIN level_thresholds
       THEN PreLevel.current_xp + last.arg >= SumThresholds(PreLevel.current_level, NumLevels)
       ELSE PreLevel.current_xp + last.arg >= PreLevel.xp_to_next_level

\* C20: an add_xp that would take the learner above the last level of the
\* table ends in an error: the level is not left at the last level and the
\* XP is not dropped without one
C20_OverflowIsAnError == Overflows => last.exc # "none"

\* a learner at level 20 is given the threshold of level 20
C20_Witness ==
    /\ Overflows /\ last.exc = "KeyError"
    /\ PreLevel.current_level = NumLevels
    /\ PostLevel.current_level = NumLevels + 1
    /\ PostLevel.total_xp_earned = PreLevel.total_xp_earned + last.arg

\* C36: every stored StudentLevel has a level of the level table (1 to 20),
\* and its xp_to_next_level and title are the table's entry for that level;
\* the record created for a new learner is level 1 with threshold 100 and the
\* first title
C36_LevelRecordMatchesTable ==
    /\ NewLevel.xp_to_next_level = level_thresholds[1].xp_required
    /\ NewLevel.title = level_thresholds[1].title
    /\ \A s \in Students :
          student_levels_db[s] # Absent
              => /\ student_levels_db[s].current_level \in 1..NumLevels
                 /\ student_levels_db[s].xp_to_next_level
                        = level_thresholds[student_levels_db[s].current_level].xp_required
                 /\ student_levels_db[s].title
                        = level_thresholds[student_levels_db[s].current_level].title

\* C37: an add_xp that ends in an error leaves the stored StudentLevel of the
\* learner as it was before the call
C37_FailedAddXpChangesNothing ==
    (last.op = "add_xp" /\ last.exc # "none")
        => student_levels_db[last.student] = last.pre.levels[last.student]

-----------------------------------------------------------------------------
(* The clock and the operations of the engine as actions *)

Tick(d) ==
    /\ now + d <= MaxNow
    /\ now' = now + d
    /\ last' = NoCall
    /\ UNCHANGED <<student_levels_db, student_levels_keys, student_badges_db, student_streaks_db,
                   student_quests_db, student_stats_db, bound, tasks, hist>>

\* first_touch is the day of the learner's first touch, run the number of days
\* from that day on that were touched without a day left out
Touch(h, s, d) ==
    IF h.first_touch[s] = NoDate THEN [h EXCEPT !.first_touch[s] = d, !.run[s] = 1]
    ELSE IF d = h.first_touch[s] + h.run[s] THEN [h EXCEPT !.run[s] = @ + 1]
    ELSE h

\* the Streak Tracker's touch
UpdateStreaks(s) ==
    /\ s \in Students
    /\ Apply("update_streaks", s, None, update_streaks(Store, s, now),
          Touch(hist, s, date(now)))

CheckAndAwardBadgesDone(s, activity_data, r) ==
    LET newly == IF r.exc = "none" THEN {r.ret[i] : i \in 1..Len(r.ret)} ELSE {}
    IN ApplyTo("check_and_award_badges", s, activity_data, r,
             [Called(hist) EXCEPT !.awarded[s] =
                 [b \in DOMAIN badges |-> IF b \in newly THEN @[b] + 1 ELSE @[b]]])

CheckAndAwardBadges(s, activity_data) ==
    /\ s \in Students
    /\ CheckAndAwardBadgesDone(s, activity_data,
                               check_and_award_badges(Store, s, activity_data, now))
    /\ UNCHANGED tasks

\* the badge check as the activity processor makes it in step 4
CheckBadgesOnCurrentStats(s) ==
    /\ s \in Students
    /\ CheckAndAwardBadgesDone(s, "current_stats", check_badges_on_current_stats(Store, s, now))
    /\ UNCHANGED tasks

\* a request arrives: its coroutine is created and waits for the event loop
SubmitCheck(k, s, activity_data) ==
    /\ tasks[k] = IdleTask
    /\ tasks' = [tasks EXCEPT ![k] = [pc |-> "in_flight", student |-> s,
                                       activity_data |-> activity_data]]
    /\ UNCHANGED <<now, student_levels_db, student_levels_keys, student_badges_db,
                   student_streaks_db, student_quests_db, student_stats_db, bound, last, hist>>

\* the event loop runs a waiting coroutine: none of the coroutines it awaits
\* suspends (they are in-memory functions), so it runs to its end before the
\* loop takes another one
RunCheck(k) ==
    /\ tasks[k].pc = "in_flight"
    /\ CheckAndAwardBadgesDone(tasks[k].student, tasks[k].activity_data,
                               check_and_award_badges(Store, tasks[k].student,
                                                      tasks[k].activity_data, now))
    /\ tasks' = [tasks EXCEPT ![k].pc = "done"]

\* the XP calculator reads and writes no store
CalculateActivityXp(s, activity_type, activity_data) ==
    /\ s \in Students
    /\ Apply("calculate_activity_xp", s, [type |-> activity_type, data |-> activity_data],
             Ok(Store, calculate_activity_xp(activity_type, activity_data)), hist)

GenerateDailyQuests(s) ==
    /\ s \in Students
    /\ \E daily_quests \in generate_daily_quests_samples(Store, s) :
          Apply("generate_daily_quests", s, None,
                generate_daily_quests_return(Store, s, daily_quests), Called(hist))

StartDailyQuest(s, quest_id) ==
    /\ s \in Students
    /\ Apply("start_daily_quest", s, quest_id, start_daily_quest(Store, s, quest_id, now),
             Called(hist))

UpdateQuestProgress(s, activity_data) ==
    /\ s \in Students
    /\ Apply("update_quest_progress", s, activity_data,
             update_quest_progress(Store, s, activity_data, now), Called(hist))

\* the query, as the dashboard and the quest endpoints make it
GetActiveQuests(s) ==
    /\ s \in Students
    /\ Apply("get_active_quests", s, None, get_active_quests(Store, s, now), hist)

\* the leaderboard endpoint; the call is for no learner
GetLeaderboard(limit) ==
    /\ limit > 0
    /\ Apply("get_leaderboard", "", limit, get_leaderboard(Store, limit), hist)

CheckSpecialAchievements(s, activity_type, activity_data) ==
    /\ s \in Students
    /\ Apply("check_special_achievements", s, [type |-> activity_type, data |-> activity_data],
             check_special_achievements(Store, s, activity_type, activity_data, now),
             Called(hist))

\* the counter store's update, with the stats_update dict the activity
\* processor builds for a report; tutors collects the tutor types reported
UpdateStudentStats(s, activity_type, activity_data) ==
    /\ s \in Students
    /\ Apply("update_student_stats", s, [type |-> activity_type, data |-> activity_data],
             GamificationStorage_update_student_stats(
                 Store, s, stats_update(activity_type, activity_data, now), now),
             [Called(hist) EXCEPT !.tutors[s] =
                 IF activity_data.tutor_type # "" THEN @ \cup {activity_data.tutor_type} ELSE @])

HasQuest(qs, q) == \E i \in 1..Len(qs) : qs[i].quest_id = q

\* ReportActivity; reported counts the learner's message_sent reports,
\* quest_reports those made while the learner has a daily_explorer instance
ProcessStudentActivity(s, activity_type, activity_data) ==
    /\ s \in Students
    /\ Apply("process_student_activity", s, [type |-> activity_type, data |-> activity_data],
             process_student_activity(Store, s, activity_type, activity_data, now),
             [Called(hist) EXCEPT
                 !.reported[s] = IF activity_type = "message_sent" THEN @ + 1 ELSE @,
                 !.quest_reports[s] =
                     IF activity_type = "message_sent" /\ HasQuest(student_quests_db[s], "daily_explorer")
                     THEN @ + 1 ELSE @])

-----------------------------------------------------------------------------
(* Streak tracker on its own: touches of one learner while the days pass *)

StreakTicks == {8, 24, 48}

NextStreak ==
    \/ UpdateStreaks("s1")
    \/ \E d \in StreakTicks : Tick(d)

SpecStreak == Init /\ [][NextStreak]_vars

Touched == last.op = "update_streaks"
PreStreak == last.pre.streaks[last.student]
PostStreak == student_streaks_db[last.student]

\* C4: a touch of a learner whose streak's last activity date is today leaves
\* current_count and max_count as they were
C4_SameDayIdempotent ==
    (Touched /\ PreStreak # Absent /\ date(PreStreak.last_activity_date) = date(last.at))
        => /\ PostStreak.current_count = PreStreak.current_count
           /\ PostStreak.max_count = PreStreak.max_count

C4_Witness ==
    /\ Touched /\ PreStreak # Absent
    /\ date(PreStreak.last_activity_date) = date(last.at)
    /\ PreStreak.last_activity_date < last.at
    /\ PreStreak.current_count = 3
    /\ PostStreak = PreStreak

\* C5: a touch when the last activity's calendar date is yesterday, at whatever
\* hour, adds exactly 1 to current_count and makes max_count the larger of the
\* old max_count and the new current_count
C5_ConsecutiveDay ==
    (Touched /\ PreStreak # Absent /\ date(PreStreak.last_activity_date) = date(last.at) - 1)
        => /\ PostStreak.current_count = PreStreak.current_count + 1
           /\ PostStreak.max_count = Max(PreStreak.max_count, PostStreak.current_count)

\* yesterday evening to this morning, eight hours apart, below an older record
C5_Witness ==
    /\ Touched /\ PreStreak # Absent
    /\ date(PreStreak.last_activity_date) = date(last.at) - 1
    /\ last.at - PreStreak.last_activity_date = 8
    /\ PreStreak.max_count > PreStreak.current_count + 1
    /\ PostStreak.current_count = PreStreak.current_count + 1
    /\ PostStreak.max_count = PreStreak.max_count

\* C6: a touch when the last activity date is two or more days before today
\* sets current_count to 1 and keeps max_count
C6_GapResets ==
    (Touched /\ PreStreak # Absent /\ date(PreStreak.last_activity_date) <= date(last.at) - 2)
        => /\ PostStreak.current_count = 1
           /\ PostStreak.max_count = PreStreak.max_count

C6_Witness ==
    /\ Touched /\ PreStreak # Absent
    /\ date(PreStreak.last_activity_date) = date(last.at) - 2
    /\ PreStreak.current_count = 3 /\ PreStreak.max_count = 3
    /\ PostStreak.current_count = 1 /\ PostStreak.max_count = 3

NumAchievements(s, b) ==
    Cardinality({i \in 1..Len(student_badges_db[s]) : student_badges_db[s][i].badge_id = b})

\* C7: a new learner touched on each of seven consecutive days has
\* current_count = 7 at the end of the seventh day, and holds exactly one
\* daily_learner Achievement from then on
C7_SevenDayStreak ==
    \A s \in Students :
        hist.run[s] >= 7
            => /\ NumAchievements(s, "daily_learner") = 1
               /\ date(now) = hist.first_touch[s] + 6 =>
                     /\ student_streaks_db[s] # Absent
                     /\ student_streaks_db[s].current_count = 7

\* C26: every stored streak record has current_count >= 1 and
\* max_count >= current_count, and a touch of a learner without a record
\* creates the record with current_count = 1, max_count = 1 and is_active
\* (the store is keyed by learner and streak type: one record of a type at most)
C26_StreakRecord ==
    /\ \A s \in Students :
          student_streaks_db[s] # Absent
              => /\ student_streaks_db[s].current_count >= 1
                 /\ student_streaks_db[s].max_count >= student_streaks_db[s].current_count
    /\ (Touched /\ PreStreak = Absent)
          => /\ PostStreak # Absent
             /\ PostStreak.current_count = 1
             /\ PostStreak.max_count = 1
             /\ PostStreak.is_active

\* C39: every stored streak record has is_active = TRUE, whatever the gaps
\* between the days of the touches
C39_StreakAlwaysActive ==
    \A s \in Students :
        student_streaks_db[s] # Absent => student_streaks_db[s].is_active

\* a touch four days after the last one of a three-day streak resets the
\* count and leaves the record active
C39_Witness ==
    /\ Touched /\ PreStreak # Absent
    /\ date(PreStreak.last_activity_date) = date(last.at) - 4
    /\ PreStreak.current_count = 3
    /\ PostStreak.current_count = 1 /\ PostStreak.max_count = 3
    /\ PostStreak.is_active

-----------------------------------------------------------------------------
(* Quest engine on its own *)

QuestTicks == {24}
QuestInputs == {"daily_explorer", "math_marathon"}
QuestDeltas ==
    {Dict1("messages_today", 2), Dict1("messages_today", 5), Dict1("math_problems_week", 10)}

NextQuest ==
    \/ \E q \in QuestInputs : hist.calls < MaxQuestCalls /\ StartDailyQuest("s1", q)
    \/ \E d \in QuestDeltas : hist.calls < MaxQuestCalls /\ UpdateQuestProgress("s1", d)
    \/ GetActiveQuests("s1")
    \/ \E d \in QuestTicks : Tick(d)

SpecQuest == Init /\ [][NextQuest]_vars

TotalXp(levels, s) == IF levels[s] = Absent THEN 0 ELSE levels[s].total_xp_earned

RECURSIVE SumOver(_, _)
SumOver(f, S) ==
    IF S = {} THEN 0
    ELSE LET x == CHOOSE y \in S : TRUE IN f[x] + SumOver(f, S \ {x})

SeqToSet(q) == {q[i] : i \in 1..Len(q)}

PreQuests == last.pre.quests[last.student]
PostQuests == student_quests_db[last.student]
NewlyCompleted == {i \in 1..Len(PostQuests) : ~PreQuests[i].completed /\ PostQuests[i].completed}
AddedBadges ==
    {student_badges_db[last.student][i].badge_id :
        i \in (Len(last.pre.badges[last.student]) + 1)..Len(student_badges_db[last.student])}

\* C8: an update_quest_progress call leaves every instance that was already
\* completed as it was (progress, completed, completion_date), does not list
\* it as completed again, and adds no XP and no badge but those of the
\* instances it completes itself
C8_CompletedIsTerminal ==
    last.op = "update_quest_progress" =>
        /\ Len(PostQuests) = Len(PreQuests)
        /\ \A i \in 1..Len(PreQuests) :
              PreQuests[i].completed =>
                  /\ PostQuests[i] = PreQuests[i]
                  /\ last.exc = "none" => PreQuests[i].quest_id \notin SeqToSet(last.ret)
        /\ TotalXp(student_levels_db, last.student) - TotalXp(last.pre.levels, last.student)
              = SumOver([i \in 1..Len(PostQuests) |-> quests[PostQuests[i].quest_id].xp_reward],
                        NewlyCompleted)
        /\ AddedBadges \subseteq {quests[PostQuests[i].quest_id].badge_reward : i \in NewlyCompleted}

\* a delta for the requirement of an already completed quest
C8_Witness ==
    /\ last.op = "update_quest_progress"
    /\ \E i \in 1..Len(PreQuests) :
          /\ PreQuests[i].completed
          /\ PreQuests[i].quest_id = "math_marathon"
          /\ DictGet(last.arg, "math_problems_week") = 10
          /\ PostQuests[i] = PreQuests[i]
    /\ TotalXp(student_levels_db, last.student) = TotalXp(last.pre.levels, last.student)
    /\ student_badges_db = last.pre.badges

\* C9: the active-quests query returns no completed instance and no instance
\* whose start_date + time_limit_hours is earlier than the time of the query
C9_ActiveExcludesExpired ==
    last.op = "get_active_quests" =>
        \A n \in 1..Len(last.ret) :
            LET quest == student_quests_db[last.student][last.ret[n]]
            IN /\ ~quest.completed
               /\ ~(quest.start_date + quests[quest.quest_id].time_limit_hours < last.at)

\* has the instance's time limit elapsed at time t
Expired(quest_progress, t) ==
    quest_progress.start_date + quests[quest_progress.quest_id].time_limit_hours < t

\* C16: start_daily_quest returns False and leaves the learner's quests as
\* they were when an instance of the quest is active and not expired;
\* otherwise it returns True and the learner has an instance of the quest
\* started now, with empty progress and not completed
C16_StartQuest ==
    last.op = "start_daily_quest" =>
        IF \E i \in 1..Len(PreQuests) :
              /\ PreQuests[i].quest_id = last.arg
              /\ ~PreQuests[i].completed
              /\ ~Expired(PreQuests[i], last.at)
        THEN last.ret = FALSE /\ PostQuests = PreQuests
        ELSE /\ last.ret = TRUE
             /\ \E i \in 1..Len(PostQuests) :
                   PostQuests[i] = [quest_id |-> last.arg, start_date |-> last.at,
                                    progress |-> EmptyDict, completed |-> FALSE,
                                    completion_date |-> NoDate]

\* C17: update_quest_progress adds the delta to the requirement keys of
\* every active instance, marks the instance completed exactly when every
\* requirement is then met, stamps the completion date, and adds the XP
\* reward of each instance it completes, once
C17_CompletionRule ==
    (last.op = "update_quest_progress" /\ last.exc = "none") =>
        /\ Len(PostQuests) = Len(PreQuests)
        /\ \A i \in 1..Len(PreQuests) :
              (~PreQuests[i].completed /\ ~Expired(PreQuests[i], last.at)) =>
                  LET quest == quests[PreQuests[i].quest_id]
                      after == [k \in DOMAIN quest.requirements |->
                                   DictGet(PreQuests[i].progress, k) + DictGet(last.arg, k)]
                      met == \A k \in DOMAIN quest.requirements : after[k] >= quest.requirements[k]
                  IN /\ PostQuests[i].completed <=> met
                     /\ met => PostQuests[i].completion_date = last.at
                     /\ \A k \in DOMAIN quest.requirements :
                           DictGet(PostQuests[i].progress, k) = after[k]
        /\ TotalXp(student_levels_db, last.student) =
              TotalXp(last.pre.levels, last.student)
                 + SumOver([i \in 1..Len(PostQuests) |-> quests[PostQuests[i].quest_id].xp_reward],
                           NewlyCompleted)

\* the daily-explorer quest reaches its threshold of 5 exactly
C17_Witness ==
    /\ last.op = "update_quest_progress" /\ last.exc = "none"
    /\ \E i \in NewlyCompleted :
          /\ PostQuests[i].quest_id = "daily_explorer"
          /\ ~Expired(PreQuests[i], last.at)
          /\ DictGet(PostQuests[i].progress, "messages_today") = 5
          /\ PostQuests[i].completion_date = last.at
    /\ TotalXp(student_levels_db, last.student) = TotalXp(last.pre.levels, last.student) + 100

\* C18: after a quest with a badge reward completes, the learner holds the
\* badge
C18_QuestBadgeGranted ==
    (last.op = "update_quest_progress" /\ last.exc = "none") =>
        \A i \in NewlyCompleted :
            quests[PostQuests[i].quest_id].badge_reward # NoBadge
                => HasBadge(student_badges_db[last.student],
                            quests[PostQuests[i].quest_id].badge_reward)

-----------------------------------------------------------------------------
(* Quest starts with identifiers inside and outside the catalog, through the
   engine and through the endpoint *)

StartQuest(s, quest_id) ==
    /\ s \in Students
    /\ Apply("start_quest", s, quest_id, start_quest(Store, s, quest_id, now), Called(hist))

CatalogInputs == {"daily_explorer", "no_such_quest"}

NextCatalog ==
    \/ \E q \in CatalogInputs : hist.calls < MaxQuestCalls /\ StartDailyQuest("s1", q)
    \/ \E q \in CatalogInputs \cup {""} : hist.calls < MaxQuestCalls /\ StartQuest("s1", q)
    \/ hist.calls < MaxQuestCalls /\ UpdateQuestProgress("s1", Dict1("messages_today", 5))
    \/ Tick(24)

SpecCatalog == Init /\ [][NextCatalog]_vars

\* C22: a start with a quest id that is not in the catalog returns False and
\* creates no instance, so that no stored instance refers to a quest id that
\* the catalog does not have
C22_UnknownQuestRejected ==
    /\ (last.op = "start_daily_quest" /\ last.arg \notin DOMAIN quests)
          => last.ret = FALSE /\ PostQuests = PreQuests
    /\ \A s \in Students : \A i \in 1..Len(student_quests_db[s]) :
          student_quests_db[s][i].quest_id \in DOMAIN quests

-----------------------------------------------------------------------------
(* Dashboard: a learner earns XP, starts quests, makes progress and opens the
   dashboard while the days pass *)

GetStudentDashboardData(s) ==
    /\ s \in Students
    /\ \E daily_quests \in daily_quest_samples(Store, s, now) :
          Apply("get_student_dashboard_data", s, daily_quests,
                get_student_dashboard_data(Store, s, now, daily_quests), Called(hist))

DashboardAmounts == {250, 1000}

NextDashboard ==
    \/ hist.calls < MaxDashboardCalls /\ GetStudentDashboardData("s1")
    \/ \E xp_amount \in DashboardAmounts : hist.calls < MaxDashboardCalls /\ AddXp("s1", xp_amount)
    \/ hist.calls < MaxDashboardCalls /\ StartDailyQuest("s1", "daily_explorer")
    \/ hist.calls < MaxDashboardCalls /\ UpdateQuestProgress("s1", Dict1("messages_today", 3))
    \/ Tick(24)

SpecDashboard == Init /\ [][NextDashboard]_vars

\* the instances that are neither completed nor past their time limit at t
ActiveAt(qs, t) == {i \in 1..Len(qs) : ~qs[i].completed /\ ~Expired(qs[i], t)}

\* C24: a dashboard call for a learner with no active quest leaves the
\* learner with one to three active quests; for a learner with an active
\* quest it starts none
C24_DashboardStartsQuests ==
    last.op = "get_student_dashboard_data" =>
        IF ActiveAt(PreQuests, last.at) = {}
        THEN Cardinality(ActiveAt(PostQuests, last.at)) \in 1..3
        ELSE PostQuests = PreQuests

\* C27: in every state a learner has at most one instance of a quest that is
\* not completed, whatever the order of starts, progress updates and
\* dashboard calls, and no call lowers a progress value of an instance that
\* was not completed before it
C27_OneOpenInstance ==
    /\ \A s \in Students : \A i, j \in 1..Len(student_quests_db[s]) :
          (/\ i # j
           /\ ~student_quests_db[s][i].completed
           /\ ~student_quests_db[s][j].completed)
              => student_quests_db[s][i].quest_id # student_quests_db[s][j].quest_id
    /\ last.op # "none" =>
          /\ Len(PostQuests) >= Len(PreQuests)
          /\ \A i \in 1..Len(PreQuests) :
                ~PreQuests[i].completed
                    => /\ PostQuests[i].quest_id = PreQuests[i].quest_id
                       /\ PostQuests[i].start_date = PreQuests[i].start_date
                       /\ \A k \in DOMAIN PreQuests[i].progress :
                             DictGet(PostQuests[i].progress, k) >= PreQuests[i].progress[k]

\* the dashboard started two quests; a second update adds to the progress of
\* the open daily_explorer instance while the voice_challenger one stays open
C27_Witness ==
    /\ last.op = "update_quest_progress" /\ last.exc = "none"
    /\ Len(PreQuests) >= 2
    /\ \E i \in 1..Len(PreQuests) :
          /\ PreQuests[i].quest_id = "daily_explorer"
          /\ ~PreQuests[i].completed
          /\ DictGet(PreQuests[i].progress, "messages_today") = 3
          /\ DictGet(PostQuests[i].progress, "messages_today") = 6
    /\ \E j \in 1..Len(PostQuests) :
          PostQuests[j].quest_id = "voice_challenger" /\ ~PostQuests[j].completed

-----------------------------------------------------------------------------
(* Activity processor on its own: the reports of one learner *)

ActivityTypes == {"message_sent", "voice_used", "book_generated", "reading_session", "quiz_taken"}

ActivityDatas ==
    {NoData,
     [NoData EXCEPT !.subject = "math", !.tutor_type = "math"],
     [NoData EXCEPT !.accuracy_score = 90, !.words_per_minute = 120, !.comprehension_score = 81]}

NextActivity ==
    \/ \E a \in ActivityTypes, d \in ActivityDatas :
          hist.calls < MaxReports /\ ProcessStudentActivity("s1", a, d)
    \/ Tick(24)

SpecActivity == Init /\ [][NextActivity]_vars

\* C10: after a new learner has reported message_sent N times (N >= 1), the
\* learner's stored counter messages_sent is N
C10_MessagesCounted ==
    \A s \in Students :
        hist.reported[s] >= 1 =>
            /\ student_stats_db[s] # Absent
            /\ student_stats_db[s].num["messages_sent"] = hist.reported[s]

\* C14: a report with a known activity type returns the aggregated result
\* without an error, after the XP was applied, the counters incremented and
\* the streak touched
C14_FixedPipeline ==
    (last.op = "process_student_activity" /\ last.arg.type \in DOMAIN ActivityBaseXp)
        => /\ last.ret.error = ""
           /\ TotalXp(student_levels_db, last.student)
                  = TotalXp(last.pre.levels, last.student) + last.ret.xp_gained
           /\ student_stats_db[last.student] # Absent
           /\ student_stats_db[last.student].last_activity_date = last.at
           /\ student_streaks_db[last.student] # Absent
           /\ student_streaks_db[last.student].last_activity_date = last.at

\* C23: when a step of a report fails, the result carries the error, the XP
\* that step 1 applied stays applied, and the steps after the failing one
\* are not executed: a report that failed before its streak result was set
\* has changed no counter, no streak, no badge and no quest
C23_PartialFailure ==
    (last.op = "process_student_activity" /\ last.ret.error # "")
        => /\ TotalXp(student_levels_db, last.student)
                 = TotalXp(last.pre.levels, last.student)
                      + calculate_activity_xp(last.arg.type, last.arg.data)
           /\ last.ret.streak_updates = None
                 => /\ student_stats_db = last.pre.stats
                    /\ student_streaks_db = last.pre.streaks
                    /\ student_badges_db = last.pre.badges
                    /\ student_quests_db = last.pre.quests
                    /\ last.ret.new_badges = <<>> /\ last.ret.completed_quests = <<>>

\* the second failing report of a learner: the XP of the first is still there
\* and the XP of the second is added to it
C23_Witness ==
    /\ last.op = "process_student_activity" /\ last.ret.error = "TypeError"
    /\ last.arg.type = "reading_session" /\ last.ret.xp_gained = 175
    /\ TotalXp(last.pre.levels, last.student) = 5
    /\ TotalXp(student_levels_db, last.student) = 180
    /\ student_stats_db[last.student] = Absent

\* C21: a report whose activity type is not in the XP table is rejected and
\* nothing is applied: the result carries an error, no XP is added, no
\* counter changes and the streak is not touched
C21_UnknownActivityRejected ==
    (last.op = "process_student_activity" /\ last.arg.type \notin DOMAIN ActivityBaseXp)
        => /\ last.ret.error # ""
           /\ last.ret.xp_gained = 0
           /\ TotalXp(student_levels_db, last.student) = TotalXp(last.pre.levels, last.student)
           /\ student_stats_db = last.pre.stats
           /\ student_streaks_db = last.pre.streaks

-----------------------------------------------------------------------------
(* Leaderboard: learners earn XP in any order and the leaderboard is read *)

LeaderAmounts == {0, 500, 1500}
Limits == {1, 2, 10}

NextLeaderboard ==
    \/ \E s \in Students, xp_amount \in LeaderAmounts : AddXp(s, xp_amount)
    \/ \E limit \in Limits : GetLeaderboard(limit)

SpecLeaderboard == Init /\ [][NextLeaderboard]_vars

\* the learner identifiers in their order
SortedIds == <<"s1", "s2">>
IdIndex(s) == CHOOSE i \in 1..Len(SortedIds) : SortedIds[i] = s

\* C15: the leaderboard has at most limit entries, in descending order of
\* total_xp, and entries with the same total_xp in the order of the learner
\* identifiers
C15_LeaderboardOrder ==
    last.op = "get_leaderboard" =>
        /\ Len(last.ret) <= last.arg
        /\ \A i, j \in 1..Len(last.ret) :
              i < j => \/ last.ret[i].entry.total_xp > last.ret[j].entry.total_xp
                       \/ /\ last.ret[i].entry.total_xp = last.ret[j].entry.total_xp
                          /\ IdIndex(last.ret[i].entry.student_id)
                                 < IdIndex(last.ret[j].entry.student_id)

-----------------------------------------------------------------------------
(* The scenario of the daily-explorer quest: a learner starts the quest and
   reports message_sent *)

NextScenario ==
    \/ hist.calls < MaxReports + 1 /\ StartDailyQuest("s1", "daily_explorer")
    \/ hist.calls < MaxReports + 1 /\ ProcessStudentActivity("s1", "message_sent", NoData)
    \/ Tick(24)

SpecScenario == Init /\ [][NextScenario]_vars

\* C11: on the day a learner started the daily-explorer quest, the instance
\* is completed once five message_sent reports were processed and not before
C11_QuestCompletesOnFifth ==
    \A s \in Students : \A i \in 1..Len(student_quests_db[s]) :
        (/\ student_quests_db[s][i].quest_id = "daily_explorer"
         /\ date(student_quests_db[s][i].start_date) = date(now))
            => (student_quests_db[s][i].completed <=> hist.quest_reports[s] >= 5)

-----------------------------------------------------------------------------
(* Badge engine on its own: repeated checks with the same deltas *)

BadgeDeltas ==
    {Dict1("messages_sent", 1), Dict1("math_interactions", 20),
     [k \in {"daily_streak", "all_tutors_one_day"} |-> IF k = "daily_streak" THEN 7 ELSE 1]}

NextBadge ==
    \/ \E d \in BadgeDeltas : hist.calls < MaxBadgeCalls /\ CheckAndAwardBadges("s1", d)
    \/ Tick(24)

SpecBadge == Init /\ [][NextBadge]_vars

Returned(s) == {b \in DOMAIN badges : hist.awarded[s][b] >= 1}

\* C3: awarding the same badge a second time is a no-op: over repeated
\* check_and_award_badges calls a badge is returned as newly awarded at most
\* once, the learner holds at most one Achievement of it, and the XP earned
\* is the sum of the rewards of the badges returned, each counted once
C3_RepeatedAwardNoOp ==
    \A s \in Students :
        /\ \A b \in DOMAIN badges : hist.awarded[s][b] <= 1 /\ NumAchievements(s, b) <= 1
        /\ TotalXp(student_levels_db, s) = SumOver([b \in DOMAIN badges |-> badges[b].xp_reward], Returned(s))

-----------------------------------------------------------------------------
(* Badge checks against stored counters: the counters are updated and the
   badge check is called with deltas below, at and above what is missing *)

MathData == [NoData EXCEPT !.subject = "math", !.tutor_type = "math"]

EligibilityDeltas ==
    {Dict1("math_interactions", 18), Dict1("math_interactions", 20), Dict1("messages_sent", 1)}

NextEligibility ==
    \/ hist.calls < MaxBadgeCalls /\ UpdateStudentStats("s1", "message_sent", MathData)
    \/ \E d \in EligibilityDeltas : hist.calls < MaxBadgeCalls /\ CheckAndAwardBadges("s1", d)

SpecEligibility == Init /\ [][NextEligibility]_vars

\* the stored counter, 0 when the learner or the counter is missing
StoredCounter(stats, s, k) == IF stats[s] = Absent THEN 0 ELSE DictGet(stats[s].num, k)

\* stored counter plus delta reaches the threshold, for every requirement key
RequirementsMet(b, stats, s, delta) ==
    \A req_key \in DOMAIN badges[b].requirements :
        StoredCounter(stats, s, req_key) + DictGet(delta, req_key)
            >= badges[b].requirements[req_key]

\* C28: a badge check awards a badge the learner does not hold if and only if
\* every requirement key of the badge has stored counter + delta >= threshold:
\* such a badge is returned and held after the call, any other is neither
C28_AwardIffEligible ==
    last.op = "check_and_award_badges" =>
        \A b \in DOMAIN badges :
            ~HasBadge(last.pre.badges[last.student], b) =>
                IF RequirementsMet(b, last.pre.stats, last.student, last.arg)
                THEN /\ last.exc = "none"
                     /\ b \in SeqToSet(last.ret)
                     /\ HasBadge(student_badges_db[last.student], b)
                ELSE /\ ~HasBadge(student_badges_db[last.student], b)
                     /\ last.exc = "none" => b \notin SeqToSet(last.ret)

-----------------------------------------------------------------------------
(* Counter store and badge check as the activity processor uses them: the
   counters are updated for a report (step 2) and the badge check is given
   the stored counters (step 4) *)

NextCounters ==
    \/ \E d \in {NoData, MathData} :
          hist.calls < MaxUpdates /\ UpdateStudentStats("s1", "message_sent", d)
    \/ hist.calls < MaxUpdates /\ CheckBadgesOnCurrentStats("s1")

SpecCounters == Init /\ [][NextCounters]_vars

C30_TutorCategoriesSet ==
    \A s \in Students :
        student_stats_db[s] # Absent
            => /\ student_stats_db[s].different_tutors_used.kind = "set"
               /\ student_stats_db[s].different_tutors_used.v = hist.tutors[s]

-----------------------------------------------------------------------------
(* The accessors of the engine called one by one, on an engine that the
   startup hook has rebound and on one that it has not *)

\* the accessors called, and the arguments they are called with
AccessorNames ==
    {"get_student_stats", "student_has_badge", "award_badge", "get_student_badges",
     "get_student_level", "get_streak", "save_streak", "get_active_quests"}

FirstStreak(t) ==
    [current_count |-> 1, max_count |-> 1, last_activity_date |-> t, is_active |-> TRUE]

AccessorArgs(name, t) ==
    IF name \in {"student_has_badge", "award_badge"} THEN {"first_chat", "night_owl"}
    ELSE IF name = "save_streak" THEN {FirstStreak(t)}
    ELSE {None}

\* gamification_engine.<name>(...)
GamificationEngine_accessor(name, D, s, arg, t) ==
    CASE name = "get_student_stats" -> get_student_stats(D, s)
      [] name = "student_has_badge" -> student_has_badge(D, s, arg)
      [] name = "award_badge" -> award_badge(D, s, arg, t)
      [] name = "get_student_badges" -> get_student_badges(D, s)
      [] name = "get_student_level" -> get_student_level(D, s)
      [] name = "get_streak" -> get_streak(D, s)
      [] name = "save_streak" -> save_streak(D, s, arg)
      [] name = "get_active_quests" -> get_active_quests(D, s, t)

\* GamificationStorage.<name>(...), the function the accessor is rebound to
GamificationStorage_function(name, D, s, arg, t) ==
    CASE name = "get_student_stats" -> GamificationStorage_get_student_stats(D, s)
      [] name = "student_has_badge" -> GamificationStorage_student_has_badge(D, s, arg)
      [] name = "award_badge" -> GamificationStorage_award_badge(D, s, arg, t)
      [] name = "get_student_badges" -> GamificationStorage_get_student_badges(D, s)
      [] name = "get_student_level" -> GamificationStorage_get_student_level(D, s)
      [] name = "get_streak" -> GamificationStorage_get_streak(D, s)
      [] name = "save_streak" -> GamificationStorage_save_streak(D, s, arg)
      [] name = "get_active_quests" -> GamificationStorage_get_active_quests(D, s, t)

CallAccessor(name, s, arg) ==
    /\ s \in Students
    /\ name \in AccessorNames
    /\ Apply(name, s, arg, GamificationEngine_accessor(name, Store, s, arg, now), Called(hist))

NextAccessors ==
    \E name \in AccessorNames : \E arg \in AccessorArgs(name, now) :
        hist.calls < MaxAccessorCalls /\ CallAccessor(name, "s1", arg)

SpecAccessors == Init /\ [][NextAccessors]_vars

\* the records of a store, without the binding of the engine's attributes
Records(D) == [D EXCEPT !.bound = {}]

\* C40: a call of an accessor of the engine, the first call on a fresh
\* engine included, returns what the GamificationStorage function it is
\* rebound to returns on the same store, and leaves the same records stored,
\* whether or not the startup rebinding has run
C40_AccessorsLikeStorage ==
    last.op \in AccessorNames
        => /\ last.ret = GamificationStorage_function(last.op, last.pre, last.student,
                                                      last.arg, last.at).ret
           /\ last.exc = GamificationStorage_function(last.op, last.pre, last.student,
                                                      last.arg, last.at).exc
           /\ Records(Store) = Records(GamificationStorage_function(
                                           last.op, last.pre, last.student,
                                           last.arg, last.at).db)

-----------------------------------------------------------------------------
(* Two learners: the operations of the engine on one and on the other, in
   any order *)

NextIsolation ==
    \E s \in Students :
        /\ hist.calls < MaxIsolationCalls
        /\ \/ ProcessStudentActivity(s, "message_sent", NoData)
           \/ AddXp(s, 250)
           \/ UpdateStreaks(s)
           \/ StartDailyQuest(s, "daily_explorer")
           \/ UpdateQuestProgress(s, Dict1("messages_today", 5))
           \/ CheckAndAwardBadges(s, Dict1("messages_sent", 1))
           \/ UpdateStudentStats(s, "message_sent", NoData)
           \/ GetStudentDashboardData(s)

SpecIsolation == Init /\ [][NextIsolation]_vars

\* the records the stores hold for learner s
RecordsOf(levels, badge_store, streaks, quest_store, stats, s) ==
    <<levels[s], badge_store[s], streaks[s], quest_store[s], stats[s]>>

\* C34: an operation on one learner leaves the LevelRecord, achievements,
\* streak, quest instances and counters of every other learner as they were
\* before the call
C34_PerLearnerIsolation ==
    last.op # "none"
        => \A other \in Students \ {last.student} :
              RecordsOf(student_levels_db, student_badges_db, student_streaks_db,
                        student_quests_db, student_stats_db, other)
                  = RecordsOf(last.pre.levels, last.pre.badges, last.pre.streaks,
                              last.pre.quests, last.pre.stats, other)

\* s2 has a LevelRecord, an Achievement, a streak, a quest instance and
\* counters when an operation on s1 creates the streak of s1
C34_Witness ==
    /\ last.op = "update_streaks" /\ last.student = "s1"
    /\ last.pre.streaks["s1"] = Absent /\ student_streaks_db["s1"] # Absent
    /\ student_levels_db["s2"] # Absent
    /\ Len(student_badges_db["s2"]) >= 1
    /\ student_streaks_db["s2"] # Absent
    /\ Len(student_quests_db["s2"]) >= 1
    /\ student_stats_db["s2"] # Absent

-----------------------------------------------------------------------------
(* XP accounting of the reports of one learner; the quality signals of a
   reading session reach the XP calculator as the client sent them *)

AccountingDatas ==
    {NoData,
     [NoData EXCEPT !.accuracy_score = 90, !.words_per_minute = 120, !.comprehension_score = 81],
     [NoData EXCEPT !.accuracy_score = 2000000]}

NextAccounting ==
    \/ \E a \in {"message_sent", "reading_session"}, d \in AccountingDatas :
          hist.calls < MaxAccountingCalls /\ ProcessStudentActivity("s1", a, d)
    \/ hist.calls < MaxAccountingCalls /\ StartDailyQuest("s1", "daily_explorer")
    \/ Tick(24)

SpecAccounting == Init /\ [][NextAccounting]_vars

\* C35: the total_xp_earned of the learner grows in a report by the
\* xp_gained of the result plus the xp_reward of every badge in new_badges
\* plus the xp_reward of every quest in completed_quests
C35_XpAccounting ==
    last.op = "process_student_activity"
        => TotalXp(student_levels_db, last.student) - TotalXp(last.pre.levels, last.student)
              = last.ret.xp_gained
                + SumOver([i \in 1..Len(last.ret.new_badges) |->
                              badges[last.ret.new_badges[i]].xp_reward],
                          1..Len(last.ret.new_badges))
                + SumOver([i \in 1..Len(last.ret.completed_quests) |->
                              quests[last.ret.completed_quests[i]].xp_reward],
                          1..Len(last.ret.completed_quests))

-----------------------------------------------------------------------------
(* XP calculator on its own: one activity of every type of the XP table with
   every combination of the three quality signals *)

Scores == {0, 50, 100, 102, 200}

NextXpCalc ==
    \E a \in DOMAIN ActivityBaseXp, acc \in Scores, wpm \in Scores, comp \in Scores :
        CalculateActivityXp("s1", a, [NoData EXCEPT !.accuracy_score = acc,
                                                    !.words_per_minute = wpm,
                                                    !.comprehension_score = comp])

SpecXpCalc == Init /\ [][NextXpCalc]_vars

\* C33: the XP of an activity is the base reward of its type, plus, for a
\* reading session, half the accuracy score, half the words per minute and
\* half the comprehension score, each of the three capped at 50, so it is at
\* most the base reward plus 150
C33_BonusesCapped ==
    last.op = "calculate_activity_xp"
        => /\ last.ret = ActivityBaseXp[last.arg.type]
                         + (IF last.arg.type = "reading_session"
                            THEN Min(half(last.arg.data.accuracy_score), 50)
                                 + Min(half(last.arg.data.words_per_minute), 50)
                                 + Min(half(last.arg.data.comprehension_score), 50)
                            ELSE 0)
           /\ last.ret <= ActivityBaseXp[last.arg.type] + 150

-----------------------------------------------------------------------------
(* Quest offers: a learner earns XP, has math activity counted and is
   offered the quests of the day *)

OfferAmounts == {250, 1000}

NextOffer ==
    \/ \E xp_amount \in OfferAmounts : hist.calls < MaxOfferCalls /\ AddXp("s1", xp_amount)
    \/ hist.calls < MaxOfferCalls /\ UpdateStudentStats("s1", "message_sent", MathData)
    \/ hist.calls < MaxOfferCalls /\ GenerateDailyQuests("s1")

SpecOffer == Init /\ [][NextOffer]_vars

\* C32: the quests returned by generate_daily_quests are at most three
\* quests of the catalog, no quest twice; voice_challenger is among them
\* only for a learner of level 3 or more, story_time only from level 5,
\* math_marathon only with more than 5 math interactions counted
C32_OfferedQuestsGated ==
    (last.op = "generate_daily_quests" /\ last.exc = "none")
        => /\ Len(last.ret) <= 3
           /\ \A i \in 1..Len(last.ret) : last.ret[i] \in DOMAIN quests
           /\ \A i, j \in 1..Len(last.ret) : i # j => last.ret[i] # last.ret[j]
           /\ "voice_challenger" \in SeqToSet(last.ret) => PreLevel.current_level >= 3
           /\ "story_time" \in SeqToSet(last.ret) => PreLevel.current_level >= 5
           /\ "math_marathon" \in SeqToSet(last.ret)
                 => StoredCounter(last.pre.stats, last.student, "math_interactions") > 5

\* a learner of level 5 with six math interactions has four quests to be
\* offered and is offered three of them; a learner of level 1 without math
\* activity is offered daily_explorer alone
C32_Witness ==
    /\ last.op = "generate_daily_quests" /\ last.exc = "none"
    /\ PreLevel.current_level >= 5
    /\ StoredCounter(last.pre.stats, last.student, "math_interactions") = 6
    /\ Len(last.ret) = 3
    /\ SeqToSet(last.ret) = {"story_time", "math_marathon", "voice_challenger"}

-----------------------------------------------------------------------------
(* Reports and counter updates of one learner at every hour of a day *)

NextClock ==
    \/ hist.calls < MaxClockCalls /\ ProcessStudentActivity("s1", "message_sent", NoData)
    \/ hist.calls < MaxClockCalls /\ UpdateStudentStats("s1", "message_sent", NoData)
    \/ now < MaxClock /\ Tick(1)

SpecClock == Init /\ [][NextClock]_vars

\* what the call recorded in last added to the learner's counter k
CounterDelta(k) ==
    StoredCounter(student_stats_db, last.student, k) - StoredCounter(last.pre.stats, last.student, k)

LateNight(h) == h >= 21 \/ h <= 5

\* C31: at every hour of the clock one activity increments late_night_study
\* by one and early_morning_study not at all when the hour is in the
\* late-night window (hour >= 21 or hour <= 5), early_morning_study by one
\* and late_night_study not at all at the hours 6 and 7, and neither counter
\* at any other hour
C31_ClockWindowCounters ==
    last.op \in {"process_student_activity", "update_student_stats"}
        => /\ CounterDelta("late_night_study") = (IF LateNight(hour(last.at)) THEN 1 ELSE 0)
           /\ CounterDelta("early_morning_study")
                  = (IF ~LateNight(hour(last.at)) /\ hour(last.at) <= 7 THEN 1 ELSE 0)

-----------------------------------------------------------------------------
(* Badge checks of one learner in flight at the same time, run by the event
   loop in any order *)

NextConcurrent ==
    \/ \E k \in TaskIds, d \in BadgeDeltas : SubmitCheck(k, "s1", d)
    \/ \E k \in TaskIds : RunCheck(k)

SpecConcurrent == Init /\ [][NextConcurrent]_vars

\* the checks that have run with a delta that alone meets the badge's thresholds
EligibleRuns(b) ==
    {k \in TaskIds :
        /\ tasks[k].pc = "done"
        /\ \A req_key \in DOMAIN badges[b].requirements :
              DictGet(tasks[k].activity_data, req_key) >= badges[b].requirements[req_key]}

\* C25: once two or more checks of a learner that were in flight together
\* have run with counters that make a badge eligible, the learner holds
\* exactly one Achievement of the badge, and the XP earned is the sum of the
\* rewards of the eligible badges, each counted once
C25_ConcurrentAwardOnce ==
    (\A k \in TaskIds : tasks[k].pc # "in_flight") =>
        /\ \A b \in DOMAIN badges :
              Cardinality(EligibleRuns(b)) >= 2 => NumAchievements("s1", b) = 1
        /\ (\E b \in DOMAIN badges : Cardinality(EligibleRuns(b)) >= 2) =>
              TotalXp(student_levels_db, "s1") =
                  SumOver([b \in DOMAIN badges |-> badges[b].xp_reward],
                          {b \in DOMAIN badges : EligibleRuns(b) # {}})

-----------------------------------------------------------------------------
(* The engine: every path that awards a badge, for a learner who is active
   on every day: a day passes only after the day's touch *)

TouchedToday(s) ==
    hist.first_touch[s] # NoDate /\ hist.first_touch[s] + hist.run[s] - 1 = date(now)

AwardDeltas ==
    {Dict1("math_interactions", 20),
     [k \in {"daily_streak", "late_night_study"} |-> IF k = "daily_streak" THEN 7 ELSE 1]}

Next ==
    \/ \E d \in AwardDeltas : hist.calls < MaxCalls /\ CheckAndAwardBadges("s1", d)
    \/ UpdateStreaks("s1")
    \/ hist.calls < MaxCalls /\ StartDailyQuest("s1", "math_marathon")
    \/ hist.calls < MaxCalls /\ UpdateQuestProgress("s1", Dict1("math_problems_week", 10))
    \/ hist.calls < MaxCalls /\ CheckSpecialAchievements("s1", "voice_used", NoData)
    \/ TouchedToday("s1") /\ date(now) < MaxDay /\ Tick(24)

Spec == Init /\ [][Next]_vars

\* C2: in every reachable state a learner holds at most one Achievement of
\* each badge, whichever path awarded it (badge check, streak milestone,
\* quest badge reward, special achievements)
C2_OneAchievementPerBadge ==
    \A s \in Students : \A b \in DOMAIN badges : NumAchievements(s, b) <= 1

\* the math_marathon quest completes and rewards math_rookie to a learner who
\* already earned it through the badge check
C2_Witness ==
    /\ last.op = "update_quest_progress" /\ last.exc = "none"
    /\ HasBadge(last.pre.badges[last.student], "math_rookie")
    /\ NewlyCompleted # {}
    /\ \A i \in NewlyCompleted : quests[PostQuests[i].quest_id].badge_reward = "math_rookie"
    /\ NumAchievements(last.student, "math_rookie") = 1

\* C38: a badge granted by a streak milestone, by the badge reward of a
\* completed quest or by check_special_achievements is stored as an
\* Achievement of the learner, and the call adds no XP for it: a touch and a
\* check of the special achievements leave the learner's StudentLevel as it
\* was, and a quest update adds the XP rewards of the quests it completes
\* and nothing else
C38_BadgeOutsideCheckNoXp ==
    /\ last.op = "update_streaks"
          => /\ student_levels_db = last.pre.levels
             /\ (PostStreak # Absent /\ PostStreak.current_count >= 7)
                   => HasBadge(student_badges_db[last.student], "daily_learner")
    /\ last.op = "check_special_achievements"
          => /\ student_levels_db = last.pre.levels
             /\ LateNight(hour(last.at))
                   => HasBadge(student_badges_db[last.student], "night_owl")
             /\ hour(last.at) <= 7
                   => HasBadge(student_badges_db[last.student], "early_bird")
    /\ (last.op = "update_quest_progress" /\ last.exc = "none")
          => /\ TotalXp(student_levels_db, last.student) - TotalXp(last.pre.levels, last.student)
                   = SumOver([i \in 1..Len(PostQuests) |-> quests[PostQuests[i].quest_id].xp_reward],
                             NewlyCompleted)
             /\ \A i \in NewlyCompleted :
                   quests[PostQuests[i].quest_id].badge_reward # NoBadge
                       => quests[PostQuests[i].quest_id].badge_reward
                              \in {student_badges_db[last.student][j].badge_id :
                                      j \in 1..Len(student_badges_db[last.student])}

====
